---- MODULE Spec2Model ----
(***************************************************************************)
(* Aurexia ERP back end: the fulfilment bookkeeping that ties production   *)
(* orders, quality inspections, shipments and sales orders together, and   *)
(* the shop-floor tracking of travel sheets and their operations.          *)
(*                                                                         *)
(* The persisted tables are the variables.  A request handler is one       *)
(* action: it works on a copy of the tables (the SQLAlchemy session and    *)
(* its open transaction) and the copy replaces the tables only when the    *)
(* handler reaches db.commit(); an exception leaves the tables as they     *)
(* were (get_db closes the session, which rolls the transaction back).     *)
(* Columns that no modelled handler reads (dates, notes, prices, users)    *)
(* are left out of the rows.                                               *)
(*                                                                         *)
(* create_shipment and update_shipment read shipment_data.status, a field  *)
(* that ShipmentCreate (schemas.py) does not declare.  The shipment        *)
(* handlers are modelled for a request schema that carries the field as    *)
(* an optional string; with the schema as it stands the read raises        *)
(* AttributeError and both requests end in a 500 before any line is        *)
(* looked at.                                                              *)
(***************************************************************************)
EXTENDS Integers, Sequences, FiniteSets, TLC

VARIABLES
    production_orders,    \* id -> [quantity, quantity_completed, quantity_scrapped, status]
    quality_inspections,  \* id -> [production_order_id, status, quantity_approved, quantity_rejected]
    next_inspection_id,   \* the quality_inspections id sequence
    shipments,            \* id -> [items]: the item rows of the shipment
    next_shipment_id,     \* the shipments id sequence
    sales_orders,         \* id -> [customer_id, due_date, status]
    sales_order_items,    \* id -> [sales_order_id, part_number_id, quantity, quantity_shipped]
    touched,              \* history: sales orders whose items a shipment request has updated
    sessions,             \* session -> the request and production order row it holds until its commit
    risk,                 \* the last evaluation of determine_risk_status: its inputs, the day and the result
    travel_sheets,        \* id -> [travel_sheet_number, production_order_id, status]
    travel_sheet_operations, \* id -> [travel_sheet_id, sequence_number, status, operator_id,
                          \*        quantity_good, quantity_scrap, end_time]
    shipment_numbers,     \* shipment id -> the shipment_number column of the row
    year                  \* the calendar year datetime.now() falls in

vars == <<production_orders, quality_inspections, next_inspection_id, shipments,
          next_shipment_id, sales_orders, sales_order_items, touched, sessions, risk,
          travel_sheets, travel_sheet_operations, shipment_numbers, year>>

(***************************************************************************)
(* Bounds of the model.                                                    *)
(***************************************************************************)
\* how many quality inspections are ever created in one behaviour
MaxInspections == 2
\* how many shipments are ever created in one behaviour
MaxShipments == 2

\* requests in flight at the same time
MaxSessions == 2

\* the calendar: days 0..MaxDay
MaxDay == 6
\* the ordered quantity of every production order
OrderQty == 2

\* how many travel sheets are ever generated in one behaviour
MaxTravelSheets == 2

\* the calendar years a behaviour runs through: 1..MaxYear
MaxYear == 2

(***************************************************************************)
(* Optional[int]: None is the empty set, the integer n is {n}.             *)
(***************************************************************************)
None == {}

Some(n) == {n}

\* Python's truth value of an Optional[int]: None and 0 are false
Truthy(x) == x # None /\ x # {0}

\* the integer held by a non-None Optional[int]
Val(x) == CHOOSE n \in x : TRUE

\* Python's `x or 0`
OrZero(x) == IF Truthy(x) THEN Val(x) ELSE 0

\* the quantity_approved and quantity_rejected values of the requests
ApprovedQuantities == {None, Some(0), Some(1)}

RejectedQuantities == {None, Some(1)}

(***************************************************************************)
(* Fixed reference data.                                                   *)
(***************************************************************************)
ProductionOrderIds == {1, 2}

\* a production order id that no row carries
MissingProductionOrderId == Cardinality(ProductionOrderIds) + 1

\* QualityInspection.status is a free string (schemas.py); the handlers
\* distinguish "Released", "Rejected" and everything else
InspectionStatuses == {"Released", "Rejected", "Pending"}

DB == [production_orders |-> production_orders,
       quality_inspections |-> quality_inspections,
       shipments |-> shipments,
       sales_orders |-> sales_orders,
       sales_order_items |-> sales_order_items]

\* the tables after a request if the session's rows were written whatever the
\* response, as they would be with a commit ahead of the raise
PersistedWithoutRollback(db, outcome) == outcome.db

\* the tables after a request: the session's rows when the handler reached
\* db.commit(); the rows before the request when it raised instead (get_db
\* closes the session, and the open transaction is rolled back)
Persisted(db, outcome) ==
    IF outcome.code \in {200, 201, 204} THEN outcome.db ELSE db

Commit(db) ==
    /\ production_orders' = db.production_orders
    /\ quality_inspections' = db.quality_inspections
    /\ shipments' = db.shipments
    /\ sales_orders' = db.sales_orders
    /\ sales_order_items' = db.sales_order_items

(***************************************************************************)
(* Quality roll-up (routes/quality_inspections.py).                        *)
(***************************************************************************)
\* the status re-derivation of create: no else branch
StatusAfterCreate(po) ==
    IF po.quantity_completed >= po.quantity THEN "Completed"
    ELSE IF po.quantity_completed > 0 THEN "In Progress"
    ELSE po.status

\* the re-derivation without its else branch, as in create
StatusAfterReversalNoElse(po) == StatusAfterCreate(po)

\* the status re-derivation of update and delete: else "Released"
StatusAfterReversal(po) ==
    IF po.quantity_completed >= po.quantity THEN "Completed"
    ELSE IF po.quantity_completed > 0 THEN "In Progress"
    ELSE "Released"

\* Contribution without the reversal: the sign is ignored, so an update or a
\* delete adds the stored quantities once more instead of taking them back
ContributionNeverReversed(po, inspection, sign) ==
    IF inspection.status = "Released" THEN
        [po EXCEPT
           !.quantity_completed =
               IF Truthy(inspection.quantity_approved)
               THEN @ + Val(inspection.quantity_approved) ELSE @,
           !.quantity_scrapped =
               IF Truthy(inspection.quantity_rejected)
               THEN @ + Val(inspection.quantity_rejected) ELSE @]
    ELSE IF inspection.status = "Rejected" THEN
        [po EXCEPT
           !.quantity_scrapped =
               IF Truthy(inspection.quantity_rejected)
               THEN @ + Val(inspection.quantity_rejected) ELSE @]
    ELSE po

\* Contribution without the "Rejected" branch: a rejected batch is not scrapped
ContributionReleasedOnly(po, inspection, sign) ==
    IF inspection.status = "Released" THEN
        [po EXCEPT
           !.quantity_completed =
               IF Truthy(inspection.quantity_approved)
               THEN @ + sign * Val(inspection.quantity_approved) ELSE @,
           !.quantity_scrapped =
               IF Truthy(inspection.quantity_rejected)
               THEN @ + sign * Val(inspection.quantity_rejected) ELSE @]
    ELSE po

\* the counters of production order po with an inspection's contribution added
\* (sign 1) or taken back (sign -1)
Contribution(po, inspection, sign) ==
    IF inspection.status = "Released" THEN
        [po EXCEPT
           !.quantity_completed =
               IF Truthy(inspection.quantity_approved)
               THEN @ + sign * Val(inspection.quantity_approved) ELSE @,
           !.quantity_scrapped =
               IF Truthy(inspection.quantity_rejected)
               THEN @ + sign * Val(inspection.quantity_rejected) ELSE @]
    ELSE IF inspection.status = "Rejected" THEN
        [po EXCEPT
           !.quantity_scrapped =
               IF Truthy(inspection.quantity_rejected)
               THEN @ + sign * Val(inspection.quantity_rejected) ELSE @]
    ELSE po

\* the validation if absent quantities counted as 0 and only the inspected
\* quantity had to be present
QuantitiesRefusedNullAsZero(inspection) ==
    /\ inspection.quantity_inspected # None
    /\ OrZero(inspection.quantity_approved) + OrZero(inspection.quantity_rejected)
          > Val(inspection.quantity_inspected)

\* "Validate quantities": the request is refused only when approved, rejected
\* and inspected are all truthy and approved + rejected > inspected
QuantitiesRefused(inspection) ==
    /\ Truthy(inspection.quantity_approved)
    /\ Truthy(inspection.quantity_rejected)
    /\ Truthy(inspection.quantity_inspected)
    /\ Val(inspection.quantity_approved) + Val(inspection.quantity_rejected)
          > Val(inspection.quantity_inspected)

\* the row stored for a request
InspectionRow(inspection) ==
    [production_order_id |-> inspection.production_order_id,
     status |-> inspection.status,
     quantity_approved |-> inspection.quantity_approved,
     quantity_rejected |-> inspection.quantity_rejected]

\* the production order as create would leave it if the status were derived
\* from the counter whatever the status of the inspection
RollUpOnCreateRederived(po, inspection) ==
    LET added == Contribution(po, inspection, 1)
    IN  [added EXCEPT !.status = StatusAfterReversal(added)]

\* the production order as create leaves it
RollUpOnCreate(po, inspection) ==
    LET added == Contribution(po, inspection, 1)
    IN  IF inspection.status = "Released"
        THEN [added EXCEPT !.status = StatusAfterCreate(added)]
        ELSE added

\* POST /quality-inspections/
create_quality_inspection(db, inspection, new_id) ==
    IF inspection.production_order_id \notin DOMAIN db.production_orders
    THEN [code |-> 400, detail |-> "Production order not found", db |-> db]
    ELSE IF QuantitiesRefused(inspection)
    THEN [code |-> 400, detail |-> "Sum of approved and rejected quantities cannot exceed inspected quantity", db |-> db]
    ELSE
      LET pid == inspection.production_order_id
          rows == [i \in DOMAIN db.quality_inspections \cup {new_id} |->
                     IF i = new_id THEN InspectionRow(inspection)
                     ELSE db.quality_inspections[i]]
      IN  [code |-> 200, detail |-> "",
           db |-> [db EXCEPT
                     !.quality_inspections = rows,
                     !.production_orders[pid] = RollUpOnCreate(@, inspection)]]
\* the row an update leaves: model_dump(exclude_unset=True) and setattr, so a
\* field the request does not carry keeps its stored value
UpdatedRow(old, inspection_update) ==
    [production_order_id |-> inspection_update.production_order_id,
     status |-> inspection_update.status,
     quantity_approved |->
         IF "quantity_approved" \in inspection_update.unset
         THEN old.quantity_approved ELSE inspection_update.quantity_approved,
     quantity_rejected |->
         IF "quantity_rejected" \in inspection_update.unset
         THEN old.quantity_rejected ELSE inspection_update.quantity_rejected]

\* the production order as update would leave it without the reversal of the
\* stored contribution
RollUpOnUpdateNotReversed(po, old, new) ==
    LET added == Contribution(po, new, 1)
    IN  IF new.status = "Released"
        THEN [added EXCEPT !.status = StatusAfterReversal(added)]
        ELSE added

\* the production order as update leaves it: the stored contribution is taken
\* back, then the updated row's contribution is added
RollUpOnUpdate(po, old, new) ==
    LET reversed == Contribution(po, old, -1)
        added == Contribution(reversed, new, 1)
    IN  IF new.status = "Released"
        THEN [added EXCEPT !.status = StatusAfterReversal(added)]
        ELSE added

\* PUT /quality-inspections/{inspection_id}.  The production order is the one
\* the stored row references; it is loaded before the fields are overwritten.
update_quality_inspection(db, inspection_id, inspection_update) ==
    IF inspection_id \notin DOMAIN db.quality_inspections
    THEN [code |-> 404, detail |-> "Quality inspection not found", db |-> db]
    ELSE
      LET old == db.quality_inspections[inspection_id]
          pid == old.production_order_id
          new == UpdatedRow(old, inspection_update)
      IN  IF new.production_order_id \notin DOMAIN db.production_orders
          THEN \* the UPDATE breaks the foreign key at commit
               [code |-> 500, detail |-> "IntegrityError", db |-> db]
          ELSE [code |-> 200, detail |-> "",
                db |-> [db EXCEPT
                          !.quality_inspections[inspection_id] = new,
                          !.production_orders[pid] = RollUpOnUpdate(@, old, new)]]

\* the production order as delete would leave it without the re-derivation of
\* the status
RollUpOnDeleteStatusKept(po, old) == Contribution(po, old, -1)

\* the production order as delete leaves it
RollUpOnDelete(po, old) ==
    LET reversed == Contribution(po, old, -1)
    IN  [reversed EXCEPT !.status = StatusAfterReversal(reversed)]

\* DELETE /quality-inspections/{inspection_id}
delete_quality_inspection(db, inspection_id, role) ==
    IF role \notin {"Admin", "Management"}
    THEN [code |-> 403, detail |-> "Only Admin or Management can delete quality inspections", db |-> db]
    ELSE IF inspection_id \notin DOMAIN db.quality_inspections
    THEN [code |-> 404, detail |-> "Quality inspection not found", db |-> db]
    ELSE
      LET old == db.quality_inspections[inspection_id]
          pid == old.production_order_id
          rows == [i \in DOMAIN db.quality_inspections \ {inspection_id} |->
                     db.quality_inspections[i]]
      IN  [code |-> 200, detail |-> "",
           db |-> [db EXCEPT
                     !.quality_inspections = rows,
                     !.production_orders[pid] = RollUpOnDelete(@, old)]]
(***************************************************************************)
(* Shipments (routes/shipments.py).                                        *)
(***************************************************************************)
\* Python's sum() of a sequence of integers
RECURSIVE SumSeq(_)
SumSeq(s) == IF s = <<>> THEN 0 ELSE Head(s) + SumSeq(Tail(s))

\* Python's sum() over the rows of a query: f maps each row id to its term
RECURSIVE SumRows(_)
SumRows(f) ==
    IF DOMAIN f = {} THEN 0
    ELSE LET i == CHOOSE j \in DOMAIN f : TRUE
         IN  f[i] + SumRows([j \in DOMAIN f \ {i} |-> f[j]])

\* the shipment_items rows of the shipments in ids, in insertion order
RECURSIVE ItemsOf(_, _)
ItemsOf(rows, ids) ==
    IF ids = {} THEN <<>>
    ELSE LET i == CHOOSE j \in ids : \A k \in ids : j <= k
         IN  rows[i].items \o ItemsOf(rows, ids \ {i})

\* db.query(ShipmentItem).all(): every shipment_items row the transaction sees
ShipmentItems(db) == ItemsOf(db.shipments, DOMAIN db.shipments)

\* the terms of a sequence of rows that reference production order pid
RECURSIVE QuantitiesFor(_, _)
QuantitiesFor(items, pid) ==
    IF items = <<>> THEN <<>>
    ELSE (IF Head(items).production_order_id = Some(pid)
          THEN <<Head(items).quantity>> ELSE <<>>)
         \o QuantitiesFor(Tail(items), pid)

\* update_sales_order_status: Open / Completed / Partial from the items' totals
update_sales_order_status(db, sales_order_id) ==
    IF sales_order_id \notin DOMAIN db.sales_orders THEN db
    ELSE
      LET items == {i \in DOMAIN db.sales_order_items :
                       db.sales_order_items[i].sales_order_id = sales_order_id}
      IN  IF items = {} THEN db
          ELSE
            LET total_ordered == SumRows([i \in items |-> db.sales_order_items[i].quantity])
                total_shipped == SumRows([i \in items |-> db.sales_order_items[i].quantity_shipped])
                new_status == IF total_shipped = 0 THEN "Open"
                              ELSE IF total_shipped >= total_ordered THEN "Completed"
                              ELSE "Partial"
            IN  [db EXCEPT !.sales_orders[sales_order_id].status = new_status]

\* the running total without the floor
NotFloored(n) == n

\* Python's max(0, n)
FloorAtZero(n) == IF n < 0 THEN 0 ELSE n

\* the loop of update_sales_order_quantities: quantity_shipped of the linked
\* sales order item moves by quantity * multiplier, floored at zero
RECURSIVE ApplyQuantities(_, _, _)
ApplyQuantities(db, shipment_items, multiplier) ==
    IF shipment_items = <<>> THEN db
    ELSE
      LET item == Head(shipment_items)
          k == item.sales_order_item_id
          next == IF k # 0 /\ k \in DOMAIN db.sales_order_items
                  THEN [db EXCEPT !.sales_order_items[k].quantity_shipped =
                                     FloorAtZero(@ + item.quantity * multiplier)]
                  ELSE db
      IN  ApplyQuantities(next, Tail(shipment_items), multiplier)

\* the sales orders update_sales_order_quantities collects for a status update
SalesOrderIdsOf(db, shipment_items) ==
    {db.sales_order_items[shipment_items[n].sales_order_item_id].sales_order_id :
        n \in {m \in DOMAIN shipment_items :
                  /\ shipment_items[m].sales_order_item_id # 0
                  /\ shipment_items[m].sales_order_item_id \in DOMAIN db.sales_order_items}}

\* the quantities written without the status updates that follow them
UpdateStatusesSkipped(db, ids) == db

\* the status updates of a set of sales orders (each touches its own row only)
RECURSIVE UpdateStatuses(_, _)
UpdateStatuses(db, ids) ==
    IF ids = {} THEN db
    ELSE LET i == CHOOSE j \in ids : TRUE
         IN  UpdateStatuses(update_sales_order_status(db, i), ids \ {i})

\* the bookkeeping if a shipped unit were also taken from quantity_completed
\* of the production order it comes from
update_quantities_and_production_orders(db, shipment_items, operation) ==
    LET multiplier == IF operation = "add" THEN 1 ELSE -1
        drawn == [db EXCEPT !.production_orders =
                     [p \in DOMAIN db.production_orders |->
                         [db.production_orders[p] EXCEPT
                             !.quantity_completed =
                                 @ - multiplier * SumSeq(QuantitiesFor(shipment_items, p))]]]
    IN  UpdateStatuses(ApplyQuantities(drawn, shipment_items, multiplier),
                       SalesOrderIdsOf(db, shipment_items))

update_sales_order_quantities(db, shipment_items, operation) ==
    LET multiplier == IF operation = "add" THEN 1 ELSE -1
    IN  UpdateStatuses(ApplyQuantities(db, shipment_items, multiplier),
                       SalesOrderIdsOf(db, shipment_items))
\* the inspections of production order pid
InspectionsOf(db, pid) ==
    {i \in DOMAIN db.quality_inspections :
        db.quality_inspections[i].production_order_id = pid}

\* the result of the quality gate; error is the message: its text, the
\* production order it names and the figures it quotes
GateResult(is_valid, text, po, figures, approved, shipped, available) ==
    [is_valid |-> is_valid,
     error_message |-> [text |-> text, po |-> po, figures |-> figures],
     approved_quantity |-> approved,
     already_shipped |-> shipped,
     available_to_ship |-> available]

\* "if not inspections" without the test: an uninspected order is let through
NotInspectedNever(inspections) == FALSE

\* "if not inspections": the production order has no quality inspection
NotInspected(inspections) == inspections = {}

\* has_rejected_status without the test: a rejected batch is let through
HasRejectedStatusNever(db, inspections) == FALSE

\* has_rejected_status: some inspection of the order has status "Rejected"
HasRejectedStatus(db, inspections) ==
    \E i \in inspections : db.quality_inspections[i].status = "Rejected"

\* the quantity test off by one: a request for all that is available is refused
ExceedsAvailableOrEqual(quantity_to_ship, available_to_ship) ==
    quantity_to_ship >= available_to_ship

\* "if quantity_to_ship > available_to_ship"
ExceedsAvailable(quantity_to_ship, available_to_ship) ==
    quantity_to_ship > available_to_ship

\* validate_quality_constraints, against the rows the transaction sees
validate_quality_constraints(db, production_order_id, quantity_to_ship) ==
    IF production_order_id \notin DOMAIN db.production_orders
    THEN GateResult(FALSE, "Production order not found", 0, <<>>, 0, 0, 0)
    ELSE
      LET inspections == InspectionsOf(db, production_order_id)
      IN  IF NotInspected(inspections)
          THEN GateResult(FALSE, "has not been quality inspected yet",
                          production_order_id, <<>>, 0, 0, 0)
          ELSE
            LET total_approved ==
                    SumRows([i \in {j \in inspections :
                                       db.quality_inspections[j].status = "Released"} |->
                               OrZero(db.quality_inspections[i].quantity_approved)])
                already_shipped ==
                    SumSeq(QuantitiesFor(ShipmentItems(db), production_order_id))
                available_to_ship == total_approved - already_shipped
            IN  IF HasRejectedStatus(db, inspections)
                THEN GateResult(FALSE, "has been rejected by quality control",
                                production_order_id, <<>>, total_approved, 0, 0)
                ELSE IF ExceedsAvailable(quantity_to_ship, available_to_ship)
                THEN GateResult(FALSE, "Cannot ship",
                                0,
                                <<quantity_to_ship, available_to_ship,
                                  total_approved, already_shipped>>,
                                total_approved, already_shipped, available_to_ship)
                ELSE GateResult(TRUE, "", 0, <<>>,
                                total_approved, already_shipped, available_to_ship)

PartNumberIds == {1, 2}

CustomerIds == {1}

\* the candidate with the earliest due date (order_by(SalesOrder.due_date.asc()))
\* or, without an ORDER BY, the single candidate: the sales orders of the
\* model have distinct due dates and at most one item per part number
FirstItem(db, candidates) ==
    IF candidates = {} THEN 0
    ELSE CHOOSE i \in candidates :
            \A j \in candidates :
                db.sales_orders[db.sales_order_items[i].sales_order_id].due_date
                  <= db.sales_orders[db.sales_order_items[j].sales_order_id].due_date

\* "Auto-match sales_order_item_id": the SQL filters read the rows of sql
AutoMatch(sql, shipment_data, item_data) ==
    IF item_data.sales_order_item_id # 0 THEN item_data.sales_order_item_id
    ELSE IF Truthy(shipment_data.sales_order_id)
    THEN FirstItem(sql, {i \in DOMAIN sql.sales_order_items :
            /\ sql.sales_order_items[i].sales_order_id = Val(shipment_data.sales_order_id)
            /\ sql.sales_order_items[i].part_number_id = item_data.part_number_id})
    ELSE FirstItem(sql, {i \in DOMAIN sql.sales_order_items :
            /\ sql.sales_orders[sql.sales_order_items[i].sales_order_id].customer_id
                  = shipment_data.customer_id
            /\ sql.sales_orders[sql.sales_order_items[i].sales_order_id].status
                  \in {"Open", "Partial"}
            /\ sql.sales_order_items[i].part_number_id = item_data.part_number_id
            /\ sql.sales_order_items[i].quantity > sql.sales_order_items[i].quantity_shipped})

\* the row db.add(shipment_item) queues for a request line
ShipmentItemRow(sql, shipment_data, item_data) ==
    [sales_order_item_id |-> AutoMatch(sql, shipment_data, item_data),
     production_order_id |-> item_data.production_order_id,
     part_number_id |-> item_data.part_number_id,
     quantity |-> item_data.quantity]

\* "for item_data in shipment_data.items": every query of the loop reads sql,
\* the rows the transaction has flushed; the session does not autoflush, so the
\* rows queued by earlier lines (pending) are not among them.  check_part is
\* create_shipment's "Verify part number exists", which update_shipment lacks.
RECURSIVE ShipmentLines(_, _, _, _, _)
ShipmentLines(sql, shipment_data, lines, pending, check_part) ==
    IF lines = <<>> THEN [code |-> 200, detail |-> "", gate |-> <<>>, items |-> pending]
    ELSE
      LET item_data == Head(lines)
          pid == Val(item_data.production_order_id)
          validation_result ==
              validate_quality_constraints(sql, pid, item_data.quantity)
      IN  IF check_part /\ item_data.part_number_id \notin PartNumberIds
          THEN [code |-> 404, detail |-> "Part number not found", gate |-> <<>>,
                items |-> pending]
          ELSE IF Truthy(item_data.production_order_id)
                  /\ pid \notin DOMAIN sql.production_orders
          THEN [code |-> 404, detail |-> "Production order not found", gate |-> <<>>,
                items |-> pending]
          ELSE IF Truthy(item_data.production_order_id) /\ ~validation_result.is_valid
          THEN [code |-> 400, detail |-> validation_result.error_message.text,
                gate |-> <<validation_result>>, items |-> pending]
          ELSE ShipmentLines(sql, shipment_data, Tail(lines),
                             Append(pending, ShipmentItemRow(sql, shipment_data, item_data)),
                             check_part)

\* db.flush() of the queued rows: a row whose foreign keys reference no row
\* raises IntegrityError
FlushRefused(db, items) ==
    \E n \in DOMAIN items :
        \/ items[n].sales_order_item_id \notin DOMAIN db.sales_order_items
        \/ items[n].part_number_id \notin PartNumberIds

\* the stored columns of the queued rows
StoredItems(items) ==
    [n \in DOMAIN items |->
        [sales_order_item_id |-> items[n].sales_order_item_id,
         production_order_id |-> items[n].production_order_id,
         quantity |-> items[n].quantity]]

\* what a shipment handler returns: the response and the session's rows at
\* the point where it returned or raised
ShipmentOutcome(code, detail, gate, db) ==
    [code |-> code, detail |-> detail, gate |-> gate, db |-> db]

\* POST /shipments
create_shipment(db, shipment_data, new_id) ==
    IF shipment_data.customer_id \notin CustomerIds
    THEN ShipmentOutcome(404, "Customer not found", <<>>, db)
    ELSE IF Truthy(shipment_data.sales_order_id)
            /\ Val(shipment_data.sales_order_id) \notin DOMAIN db.sales_orders
    THEN ShipmentOutcome(404, "Sales order not found", <<>>, db)
    ELSE
      LET flushed == [db EXCEPT !.shipments =
                         [i \in DOMAIN db.shipments \cup {new_id} |->
                             IF i = new_id THEN [items |-> <<>>] ELSE db.shipments[i]]]
          loop == ShipmentLines(flushed, shipment_data, shipment_data.items, <<>>, TRUE)
          stored == [flushed EXCEPT !.shipments[new_id].items = StoredItems(loop.items)]
      IN  IF loop.code # 200
          THEN ShipmentOutcome(loop.code, loop.detail, loop.gate, flushed)
          ELSE IF FlushRefused(flushed, loop.items)
          THEN ShipmentOutcome(500, "IntegrityError", <<>>, flushed)
          ELSE ShipmentOutcome(201, "", <<>>,
                   update_sales_order_quantities(stored, stored.shipments[new_id].items, "add"))

(***************************************************************************)
(* Shipment numbers.  "SHIP-{year}-{number:04d}" is the year and the text  *)
(* of the suffix, a sequence of decimal digits; the shipment_number column *)
(* is kept apart from the other columns of the shipment rows.              *)
(***************************************************************************)
\* the width of the zero-padded suffix
PadWidth == 4

RECURSIVE DecimalDigits(_)
\* str(n) for n >= 0, digit by digit
DecimalDigits(n) ==
    IF n < 10 THEN <<n>> ELSE Append(DecimalDigits(n \div 10), n % 10)

RECURSIVE ZeroPadded(_, _)
\* the digits filled with zeros on the left up to a width
ZeroPadded(digits, width) ==
    IF Len(digits) >= width THEN digits ELSE ZeroPadded(<<0>> \o digits, width)

\* f"{new_number:04d}"
Format04d(n) == ZeroPadded(DecimalDigits(n), PadWidth)

RECURSIVE ParseInt(_)
\* int(text) of a text of digits
ParseInt(digits) ==
    IF digits = <<>> THEN 0
    ELSE 10 * ParseInt(SubSeq(digits, 1, Len(digits) - 1)) + digits[Len(digits)]

RECURSIVE TextLess(_, _)
\* a < b in the order of strings: character by character, a proper prefix
\* first
TextLess(a, b) ==
    IF b = <<>> THEN FALSE
    ELSE IF a = <<>> THEN TRUE
    ELSE IF Head(a) # Head(b) THEN Head(a) < Head(b)
    ELSE TextLess(Tail(a), Tail(b))

\* f"{prefix}{new_number:04d}" with prefix = f"SHIP-{year}-"
ShipmentNumber(this_year, n) == [year |-> this_year, suffix |-> Format04d(n)]

\* the shipment numbers of the stored rows
StoredNumbers(numbers) == {numbers[i] : i \in DOMAIN numbers}

\* order_by(Shipment.shipment_number.desc()).first() among the numbers with
\* the prefix: the greatest in the order of strings
LastByText(matching) ==
    CHOOSE last \in matching :
        \A other \in matching : ~TextLess(last.suffix, other.suffix)

\* generate_shipment_number(db) in the year datetime.now() falls in
generate_shipment_number(numbers, this_year) ==
    LET matching == {n \in StoredNumbers(numbers) : n.year = this_year}
    IN  IF matching # {}
        THEN ShipmentNumber(this_year, ParseInt(LastByText(matching).suffix) + 1)
        ELSE ShipmentNumber(this_year, 1)

\* the INSERT of the new shipment (the first db.flush() of create_shipment):
\* shipment_number is unique, and the request ends in an IntegrityError when
\* a stored row carries the number; the two 404 answers come before it
NumberedOutcome(db, numbers, shipment_number, outcome) ==
    IF outcome.detail \in {"Customer not found", "Sales order not found"}
    THEN outcome
    ELSE IF shipment_number \in StoredNumbers(numbers)
    THEN ShipmentOutcome(500, "IntegrityError", <<>>, db)
    ELSE outcome

\* the shipment_number column of the shipment rows a request leaves: a row
\* it has inserted carries shipment_number, a row it has deleted is gone
NumbersAfter(numbers, rows, shipment_number) ==
    [i \in DOMAIN rows |-> IF i \in DOMAIN numbers THEN numbers[i] ELSE shipment_number]

\* the rows the queries read if the old items were still stored during the loop
OldItemsKept(db, shipment_id) == db

\* "Delete existing items": the bulk DELETE runs at once, so the rows the
\* later queries of the transaction read no longer hold the shipment's items
OldItemsDeleted(db, shipment_id) == [db EXCEPT !.shipments[shipment_id].items = <<>>]

\* PUT /shipments/{shipment_id}
update_shipment(db, shipment_id, shipment_data) ==
    IF shipment_id \notin DOMAIN db.shipments
    THEN ShipmentOutcome(404, "Shipment not found", <<>>, db)
    ELSE
      LET old_shipment_items == db.shipments[shipment_id].items
          \* the bulk DELETE runs at once; the quantities subtracted from the
          \* sales order items stay in the session until the flush
          sql == OldItemsDeleted(db, shipment_id)
          session == update_sales_order_quantities(sql, old_shipment_items, "subtract")
          loop == ShipmentLines(sql, shipment_data, shipment_data.items, <<>>, FALSE)
          stored == [session EXCEPT !.shipments[shipment_id].items = StoredItems(loop.items)]
      IN  IF loop.code # 200
          THEN ShipmentOutcome(loop.code, loop.detail, loop.gate, session)
          ELSE IF FlushRefused(session, loop.items)
          THEN ShipmentOutcome(500, "IntegrityError", <<>>, session)
          ELSE ShipmentOutcome(200, "", <<>>,
                   update_sales_order_quantities(stored, stored.shipments[shipment_id].items, "add"))

\* the deletion without the reversal of the shipped quantities
delete_shipment_not_reversed(db, shipment_id) ==
    IF shipment_id \notin DOMAIN db.shipments
    THEN ShipmentOutcome(404, "Shipment not found", <<>>, db)
    ELSE ShipmentOutcome(204, "", <<>>,
             [db EXCEPT !.shipments =
                 [i \in DOMAIN db.shipments \ {shipment_id} |-> db.shipments[i]]])

\* DELETE /shipments/{shipment_id}: the items go with the shipment
\* (cascade="all, delete-orphan")
delete_shipment(db, shipment_id) ==
    IF shipment_id \notin DOMAIN db.shipments
    THEN ShipmentOutcome(404, "Shipment not found", <<>>, db)
    ELSE
      LET session == update_sales_order_quantities(db, db.shipments[shipment_id].items,
                                                   "subtract")
      IN  ShipmentOutcome(204, "", <<>>,
              [session EXCEPT !.shipments =
                  [i \in DOMAIN db.shipments \ {shipment_id} |-> db.shipments[i]]])
(***************************************************************************)
(* Utilities (utils.py).  A date is the number of its day; a null date is  *)
(* None.                                                                   *)
(***************************************************************************)
\* timedelta(days=3)
RiskWindowDays == 3

\* the window one day short: the third day after today is already on time
DueWithinWindowExclusive(due_date, today) == due_date < today + RiskWindowDays

\* "elif due_date <= today + timedelta(days=3)"
DueWithinWindow(due_date, today) == due_date <= today + RiskWindowDays

\* determine_risk_status; today is date.today() at the call.  A date object
\* is never falsy, so "if not due_date" is the test for null
determine_risk_status(due_date, status, today) ==
    IF status \in {"Completed", "Shipped", "Delivered"} THEN "Green"
    ELSE IF due_date = None THEN "Yellow"
    ELSE IF Val(due_date) < today THEN "Red"
    ELSE IF DueWithinWindow(Val(due_date), today) THEN "Yellow"
    ELSE "Green"

\* an evaluation of determine_risk_status on day today
RiskEvaluation(due_date, status, today) ==
    [due_date |-> due_date, status |-> status, today |-> today,
     risk_status |-> determine_risk_status(due_date, status, today)]

(***************************************************************************)
(* Shop-floor tracking (routes/production_orders.py, routes/qr_scanner.py).*)
(* The handlers work on the travel sheets and their operations; the start  *)
(* time and the duration of an operation, which no later decision reads,   *)
(* are left out of the rows.                                               *)
(***************************************************************************)
\* the tables the shop-floor handlers can reach, as one value
FloorDB == [production_orders |-> production_orders,
            travel_sheets |-> travel_sheets,
            travel_sheet_operations |-> travel_sheet_operations]

\* PartRouting: the sequence numbers of the routing of the part number of a
\* production order, in the order of the query; the part of the second
\* production order has no routing
Routings == (1 :> <<1, 2>>) @@ (2 :> <<>>)

\* User.badge_id: the badge of each operator
Badges == ("B-1" :> 1) @@ ("B-2" :> 2)

\* what a shop-floor handler returns; the response of a scan carries success,
\* status and operation_id, status and operation_id being null when unset
FloorOutcome(code, success, status, operation_id, db) ==
    [code |-> code, success |-> success, status |-> status,
     operation_id |-> operation_id, db |-> db]

\* a new TravelSheetOperation row: status defaults to 'Pending', the
\* quantities to 0
NewOperation(travel_sheet_id, sequence_number) ==
    [travel_sheet_id |-> travel_sheet_id, sequence_number |-> sequence_number,
     status |-> "Pending", operator_id |-> None,
     quantity_good |-> 0, quantity_scrap |-> 0, end_time |-> None]

\* POST /production-orders/{order_id}/generate-travel-sheet: the sheet
\* (status defaults to 'Active') and one operation per routing step; the ids
\* come from the sequences of the two tables, from which no row is deleted
generate_travel_sheet(db, order_id) ==
    IF order_id \notin DOMAIN db.production_orders
    THEN FloorOutcome(404, FALSE, None, None, db)
    ELSE IF Routings[order_id] = <<>>
    THEN FloorOutcome(400, FALSE, None, None, db)
    ELSE
      LET sheet_id == Cardinality(DOMAIN db.travel_sheets) + 1
          first_id == Cardinality(DOMAIN db.travel_sheet_operations)
          routings == Routings[order_id]
          new_ids == {first_id + n : n \in DOMAIN routings}
      IN  FloorOutcome(200, TRUE, None, None,
              [production_orders |-> db.production_orders,
               travel_sheets |->
                  [i \in DOMAIN db.travel_sheets \cup {sheet_id} |->
                      IF i = sheet_id
                      THEN [travel_sheet_number |-> sheet_id,
                            production_order_id |-> order_id,
                            status |-> "Active"]
                      ELSE db.travel_sheets[i]],
               travel_sheet_operations |->
                  [i \in DOMAIN db.travel_sheet_operations \cup new_ids |->
                      IF i \in new_ids
                      THEN NewOperation(sheet_id, routings[i - first_id])
                      ELSE db.travel_sheet_operations[i]]])

\* a scanned QR code: whether json.loads parses it, and the "type", "number",
\* "travel_sheet_id" and "sequence" keys of the object (None: no such key)
QRCode(parses, type, number, travel_sheet_id, sequence) ==
    [parses |-> parses, type |-> type, number |-> number,
     travel_sheet_id |-> travel_sheet_id, sequence |-> sequence]

\* TravelSheet.qr_code as generate_travel_sheet writes it
TravelSheetQR(number) == QRCode(TRUE, "travel_sheet", Some(number), None, None)

\* TravelSheetOperation.qr_code as generate_travel_sheet writes it
OperationQR(travel_sheet_id, sequence) ==
    QRCode(TRUE, "operation", None, Some(travel_sheet_id), Some(sequence))

\* the operations of a sheet with a status
OperationsWith(db, travel_sheet_id, status) ==
    {o \in DOMAIN db.travel_sheet_operations :
        /\ db.travel_sheet_operations[o].travel_sheet_id = travel_sheet_id
        /\ db.travel_sheet_operations[o].status = status}

\* order_by(sequence_number).first() taking the last row instead
LastInSequence(db, candidates) ==
    IF candidates = {} THEN 0
    ELSE CHOOSE o \in candidates :
            \A other \in candidates :
                db.travel_sheet_operations[other].sequence_number
                    <= db.travel_sheet_operations[o].sequence_number

\* order_by(TravelSheetOperation.sequence_number).first(): 0 stands for no
\* row; the operations of a sheet have distinct sequence numbers
FirstInSequence(db, candidates) ==
    IF candidates = {} THEN 0
    ELSE CHOOSE o \in candidates :
            \A other \in candidates :
                db.travel_sheet_operations[o].sequence_number
                    <= db.travel_sheet_operations[other].sequence_number

\* "Start operation": status and operator (and start_time)
Started(db, o, operator) ==
    [db EXCEPT !.travel_sheet_operations[o].status = "In Progress",
               !.travel_sheet_operations[o].operator_id = Some(operator)]

\* the toggle of an operation QR code if any scan started the operation again
ToggleRestarts(db, o, operator) ==
    FloorOutcome(200, TRUE, Some("In Progress"), Some(o), Started(db, o, operator))

\* "Toggle operation status" of an operation QR code
Toggle(db, o, operator) ==
    LET status == db.travel_sheet_operations[o].status
    IN  IF status = "Pending"
        THEN FloorOutcome(200, TRUE, Some("In Progress"), Some(o), Started(db, o, operator))
        ELSE IF status = "In Progress"
        THEN FloorOutcome(200, TRUE, Some("awaiting_completion"), Some(o), db)
        ELSE FloorOutcome(200, FALSE, None, None, db)

\* POST /qr-scanner/scan; every answer is a 200 whose success flag tells
\* whether the scan was accepted
scan_qr_code(db, scan_request) ==
    IF scan_request.badge_id \notin DOMAIN Badges
    THEN FloorOutcome(200, FALSE, None, None, db)
    ELSE IF ~scan_request.qr_code.parses
    THEN FloorOutcome(200, FALSE, None, None, db)
    ELSE
      LET operator == Badges[scan_request.badge_id]
          qr_data == scan_request.qr_code
      IN  IF qr_data.type = "travel_sheet"
          THEN
            \* a code without "number" is looked up as a whole among the
            \* stored codes, all of which carry a number
            LET sheets == IF qr_data.number = None THEN {}
                          ELSE {t \in DOMAIN db.travel_sheets :
                                   db.travel_sheets[t].travel_sheet_number
                                       = Val(qr_data.number)}
            IN  IF sheets = {}
                THEN FloorOutcome(200, FALSE, None, None, db)
                ELSE
                  LET travel_sheet == CHOOSE t \in sheets : TRUE
                      first_pending_operation ==
                          FirstInSequence(db, OperationsWith(db, travel_sheet, "Pending"))
                      in_progress_operation ==
                          FirstInSequence(db, OperationsWith(db, travel_sheet, "In Progress"))
                  IN  IF first_pending_operation = 0
                      THEN IF in_progress_operation # 0
                           THEN FloorOutcome(200, TRUE, Some("awaiting_completion"),
                                             Some(in_progress_operation), db)
                           ELSE FloorOutcome(200, FALSE, None, None, db)
                      ELSE FloorOutcome(200, TRUE, Some("In Progress"),
                                        Some(first_pending_operation),
                                        Started(db, first_pending_operation, operator))
          ELSE IF qr_data.type = "operation"
          THEN
            LET found == {o \in DOMAIN db.travel_sheet_operations :
                             OperationQR(db.travel_sheet_operations[o].travel_sheet_id,
                                         db.travel_sheet_operations[o].sequence_number)
                                 = qr_data}
            IN  IF found = {}
                THEN FloorOutcome(200, FALSE, None, None, db)
                ELSE Toggle(db, CHOOSE o \in found : TRUE, operator)
          ELSE FloorOutcome(200, FALSE, None, None, db)

\* the fields of TravelSheetOperationUpdate the model carries
UpdateFields == {"status", "quantity_good", "quantity_scrap"}

\* model_dump(exclude_unset=True) copied on the operation, all fields but
\* status, start_time and end_time; a field left out of the body is None
SetFields(operation, operation_update) ==
    [a \in DOMAIN operation |->
        IF a \in UpdateFields \ {"status"} /\ operation_update[a] # None
        THEN Val(operation_update[a]) ELSE operation[a]]

\* "Update operation": the row of the operation once the handler has set it
OperationCompleted(operation, operation_update, now) ==
    SetFields([operation EXCEPT !.status = "Completed", !.end_time = Some(now)],
              operation_update)

\* the update if it also added the good and scrapped quantities of the
\* operation to the counters of the production order of the sheet
CompletedAndRolledUp(db, operation_id, operation_update, now) ==
    LET operation == OperationCompleted(db.travel_sheet_operations[operation_id],
                                        operation_update, now)
        order_id == db.travel_sheets[operation.travel_sheet_id].production_order_id
    IN  [db EXCEPT !.travel_sheet_operations[operation_id] = operation,
                   !.production_orders[order_id].quantity_completed =
                        @ + operation.quantity_good,
                   !.production_orders[order_id].quantity_scrapped =
                        @ + operation.quantity_scrap]

\* the session once the operation is updated: the operation is the only row
\* written; the production order is left to the quality inspections
Completed(db, operation_id, operation_update, now) ==
    [db EXCEPT !.travel_sheet_operations[operation_id] =
        OperationCompleted(db.travel_sheet_operations[operation_id],
                           operation_update, now)]

\* the guard on the status if it let every operation through
AnyStatus(status) == FALSE

\* operation.status != "In Progress"
NotInProgress(status) == status # "In Progress"

\* the rows the two COUNT queries read: the session was made with
\* autoflush=False, so the queries run on the stored rows and the status
\* the handler has just set on the operation is not among them
CountedRows(db, session) == db

\* PUT /qr-scanner/operations/{operation_id}/complete at the time now
complete_operation(db, operation_id, operation_update, now) ==
    IF operation_id \notin DOMAIN db.travel_sheet_operations
    THEN FloorOutcome(404, FALSE, None, None, db)
    ELSE IF NotInProgress(db.travel_sheet_operations[operation_id].status)
    THEN FloorOutcome(400, FALSE, None, None, db)
    ELSE
      LET operation == db.travel_sheet_operations[operation_id]
          session == Completed(db, operation_id, operation_update, now)
          travel_sheet == operation.travel_sheet_id
          counted == CountedRows(db, session)
          total_ops == Cardinality({o \in DOMAIN counted.travel_sheet_operations :
                          counted.travel_sheet_operations[o].travel_sheet_id = travel_sheet})
          completed_ops == Cardinality(OperationsWith(counted, travel_sheet, "Completed"))
      IN  IF /\ travel_sheet \in DOMAIN db.travel_sheets
             /\ completed_ops >= total_ops
             /\ db.travel_sheets[travel_sheet].status # "Completed"
          THEN FloorOutcome(200, TRUE, None, Some(operation_id),
                   [session EXCEPT !.travel_sheets[travel_sheet].status = "Completed"])
          ELSE FloorOutcome(200, TRUE, None, Some(operation_id), session)

(***************************************************************************)
(* The state after init_db and the creation of the reference data.         *)
(***************************************************************************)
NoRows == [i \in {} |-> {}]

\* ProductionOrder: status defaults to 'Created', the counters to 0
NewProductionOrder ==
    [quantity |-> OrderQty, quantity_completed |-> 0, quantity_scrapped |-> 0,
     status |-> "Created"]

\* two sales orders of one customer, as create_sales_order leaves them: status
\* 'Open', quantity_shipped 0
NewSalesOrders ==
    (1 :> [customer_id |-> 1, due_date |-> 1, status |-> "Open"]) @@
    (2 :> [customer_id |-> 1, due_date |-> 2, status |-> "Open"])

NewSalesOrderItems ==
    (1 :> [sales_order_id |-> 1, part_number_id |-> 1, quantity |-> 1, quantity_shipped |-> 0]) @@
    (2 :> [sales_order_id |-> 1, part_number_id |-> 2, quantity |-> 1, quantity_shipped |-> 0]) @@
    (3 :> [sales_order_id |-> 2, part_number_id |-> 1, quantity |-> 2, quantity_shipped |-> 0])

Init ==
    /\ production_orders = [p \in ProductionOrderIds |-> NewProductionOrder]
    /\ quality_inspections = NoRows
    /\ next_inspection_id = 1
    /\ shipments = NoRows
    /\ next_shipment_id = 1
    /\ sales_orders = NewSalesOrders
    /\ sales_order_items = NewSalesOrderItems
    /\ touched = {}
    /\ sessions = NoRows
    /\ risk = RiskEvaluation(None, "Created", 0)
    /\ travel_sheets = NoRows
    /\ travel_sheet_operations = NoRows
    /\ shipment_numbers = NoRows
    /\ year = 1

(***************************************************************************)
(* Quality inspection requests, one at a time.                             *)
(***************************************************************************)
\* QualityInspectionCreate bodies that name a production order of pids
InspectionRequests(pids) ==
    [production_order_id : pids,
     status : InspectionStatuses,
     quantity_inspected : {None, Some(1)},
     quantity_approved : ApprovedQuantities,
     quantity_rejected : RejectedQuantities,
     unset : {{}}]

\* bodies of an update: an optional field may be left out of the body
InspectionUpdates(pids) ==
    {u \in [production_order_id : pids,
            status : InspectionStatuses,
            quantity_inspected : {None},
            quantity_approved : ApprovedQuantities,
            quantity_rejected : RejectedQuantities,
            unset : SUBSET {"quantity_approved", "quantity_rejected"}] :
        /\ "quantity_approved" \in u.unset => u.quantity_approved = None
        /\ "quantity_rejected" \in u.unset => u.quantity_rejected = None}

CreateQualityInspection(requests) ==
    /\ next_inspection_id <= MaxInspections
    /\ \E inspection \in requests :
         LET outcome == create_quality_inspection(DB, inspection, next_inspection_id)
         IN  /\ Commit(Persisted(DB, outcome))
             /\ next_inspection_id' =
                    IF outcome.code = 200 THEN next_inspection_id + 1
                    ELSE next_inspection_id
    /\ UNCHANGED <<next_shipment_id, touched, sessions, risk,
                   travel_sheets, travel_sheet_operations, shipment_numbers, year>>

\* an update whose body names the production order the inspection has
UpdateQualityInspection ==
    /\ \E inspection_id \in 1..MaxInspections :
         \E inspection_update \in InspectionUpdates(
                IF inspection_id \in DOMAIN quality_inspections
                THEN {quality_inspections[inspection_id].production_order_id}
                ELSE ProductionOrderIds) :
            Commit(Persisted(DB,
                update_quality_inspection(DB, inspection_id, inspection_update)))
    /\ UNCHANGED <<next_inspection_id, next_shipment_id, touched, sessions, risk,
                   travel_sheets, travel_sheet_operations, shipment_numbers, year>>

DeleteQualityInspection ==
    /\ \E inspection_id \in 1..MaxInspections, role \in {"Admin", "Operator"} :
         Commit(Persisted(DB, delete_quality_inspection(DB, inspection_id, role)))
    /\ UNCHANGED <<next_inspection_id, next_shipment_id, touched, sessions, risk,
                   travel_sheets, travel_sheet_operations, shipment_numbers, year>>

\* the inspections of one production order (the first), no update moving an
\* inspection to another production order
NextRollUp ==
    \/ CreateQualityInspection(InspectionRequests({1, MissingProductionOrderId}))
    \/ UpdateQualityInspection
    \/ DeleteQualityInspection

SpecRollUp == Init /\ [][NextRollUp]_vars
\* the counters of every production order lie within the explored range
CountersInRange(db) ==
    \A p \in DOMAIN db.production_orders :
        /\ db.production_orders[p].quantity_completed \in -MaxInspections..MaxInspections
        /\ db.production_orders[p].quantity_scrapped \in -MaxInspections..MaxInspections

\* an update with any body of requests, the production order included; the
\* exploration stops where a counter would leave the range
UpdateQualityInspectionTo(requests) ==
    /\ \E inspection_id \in 1..MaxInspections, inspection_update \in requests :
          LET outcome == update_quality_inspection(DB, inspection_id, inspection_update)
          IN  /\ CountersInRange(Persisted(DB, outcome))
              /\ Commit(Persisted(DB, outcome))
    /\ UNCHANGED <<next_inspection_id, next_shipment_id, touched, sessions, risk,
                   travel_sheets, travel_sheet_operations, shipment_numbers, year>>

\* Released inspections of either production order, with approved units
MoveInspections ==
    [production_order_id : ProductionOrderIds,
     status : {"Released"},
     quantity_inspected : {None},
     quantity_approved : {Some(1)},
     quantity_rejected : RejectedQuantities,
     unset : {{}}]

\* inspections that an update may move from one production order to the other
NextMove ==
    \/ CreateQualityInspection(MoveInspections)
    \/ UpdateQualityInspectionTo(MoveInspections)
    \/ DeleteQualityInspection

SpecMove == Init /\ [][NextMove]_vars
(***************************************************************************)
(* Shipment requests, one at a time.                                       *)
(***************************************************************************)
\* a ShipmentItemCreate line
Line(sales_order_item_id, part_number_id, production_order_id, quantity) ==
    [sales_order_item_id |-> sales_order_item_id,
     part_number_id |-> part_number_id,
     production_order_id |-> production_order_id,
     quantity |-> quantity]

\* ShipmentCreate bodies with no, one or two lines of lines
ShipmentRequests(sales_order_ids, lines) ==
    [customer_id : CustomerIds,
     sales_order_id : sales_order_ids,
     items : {<<>>} \cup {<<a>> : a \in lines} \cup {<<a, b>> : a, b \in lines}]

\* the sales orders a committed request has updated through the links of rows
Touched(outcome, rows) ==
    IF outcome.code \in {200, 201, 204} THEN SalesOrderIdsOf(DB, rows) ELSE {}

CreateShipment(requests) ==
    /\ next_shipment_id <= MaxShipments
    /\ \E shipment_data \in requests :
         LET shipment_number == generate_shipment_number(shipment_numbers, year)
             outcome == NumberedOutcome(DB, shipment_numbers, shipment_number,
                            create_shipment(DB, shipment_data, next_shipment_id))
         IN  /\ Commit(Persisted(DB, outcome))
             /\ shipment_numbers' =
                    NumbersAfter(shipment_numbers, Persisted(DB, outcome).shipments,
                                 shipment_number)
             /\ next_shipment_id' =
                    IF outcome.code = 201 THEN next_shipment_id + 1 ELSE next_shipment_id
             /\ touched' = touched \cup
                    Touched(outcome, IF outcome.code = 201
                                     THEN outcome.db.shipments[next_shipment_id].items
                                     ELSE <<>>)
    /\ UNCHANGED <<next_inspection_id, sessions, risk,
                   travel_sheets, travel_sheet_operations, year>>

UpdateShipment(requests) ==
    /\ \E shipment_id \in 1..MaxShipments, shipment_data \in requests :
         LET outcome == update_shipment(DB, shipment_id, shipment_data)
         IN  /\ Commit(Persisted(DB, outcome))
             /\ touched' = touched \cup
                    Touched(outcome, IF outcome.code = 200
                                     THEN shipments[shipment_id].items
                                            \o outcome.db.shipments[shipment_id].items
                                     ELSE <<>>)
    /\ UNCHANGED <<next_inspection_id, next_shipment_id, sessions, risk,
                   travel_sheets, travel_sheet_operations, shipment_numbers, year>>

DeleteShipment ==
    /\ \E shipment_id \in 1..MaxShipments :
         LET outcome == delete_shipment(DB, shipment_id)
         IN  /\ Commit(Persisted(DB, outcome))
             /\ shipment_numbers' =
                    NumbersAfter(shipment_numbers, Persisted(DB, outcome).shipments, None)
             /\ touched' = touched \cup
                    Touched(outcome, IF outcome.code = 204
                                     THEN shipments[shipment_id].items ELSE <<>>)
    /\ UNCHANGED <<next_inspection_id, next_shipment_id, sessions, risk,
                   travel_sheets, travel_sheet_operations, year>>

\* The quality gate: inspections of the first production order arrive while
\* shipments are created, replaced and deleted.  The lines draw on the first
\* production order, on the second (never inspected) or on a missing one, or
\* name a missing part number; all are linked to the first sales order item.
GateInspections ==
    [production_order_id : {1},
     status : InspectionStatuses,
     quantity_inspected : {None},
     quantity_approved : {Some(1)},
     quantity_rejected : {None},
     unset : {{}}]

GateLines ==
    {Line(1, 1, Some(1), q) : q \in 0..2}
      \cup {Line(1, 1, Some(2), 0),
            Line(1, 1, Some(MissingProductionOrderId), 1),
            Line(1, 1 + Cardinality(PartNumberIds), Some(1), 1)}

GateRequests == ShipmentRequests({None}, GateLines)

NextGate ==
    \/ CreateQualityInspection(GateInspections)
    \/ CreateShipment(GateRequests)
    \/ UpdateShipment(GateRequests)
    \/ DeleteShipment

SpecGate == Init /\ [][NextGate]_vars

\* The sales orders: shipments without a production order, their lines linked
\* to an item of the first or the second sales order or left to the
\* auto-match (0), for one unit shipped or one unit taken back.
SalesLines ==
    {Line(1, 1, None, q) : q \in {-1, 1}} \cup {Line(k, 1, None, 1) : k \in {0, 3}}

\* bodies of no or one line, or of two lines the first of which is linked to
\* the first sales order item
SalesRequests ==
    {shipment_data \in ShipmentRequests({None}, SalesLines) :
        Len(shipment_data.items) = 2 => shipment_data.items[1].sales_order_item_id = 1}

NextSales ==
    \/ CreateShipment(SalesRequests)
    \/ UpdateShipment(SalesRequests)
    \/ DeleteShipment

SpecSales == Init /\ [][NextSales]_vars

\* The running totals: shipments without a production order whose lines ship
\* no unit or one, linked to an item of either sales order or left to the
\* auto-match (0).
LedgerLines ==
    {Line(1, 1, None, q) : q \in {0, 1}} \cup {Line(k, 1, None, 1) : k \in {0, 3}}

LedgerRequests ==
    {shipment_data \in ShipmentRequests({None}, LedgerLines) :
        Len(shipment_data.items) = 2 => shipment_data.items[1].sales_order_item_id = 1}

NextLedger ==
    \/ CreateShipment(LedgerRequests)
    \/ UpdateShipment(LedgerRequests)
    \/ DeleteShipment

SpecLedger == Init /\ [][NextLedger]_vars

(***************************************************************************)
(* Quality inspection requests in flight together, each in its own session.*)
(***************************************************************************)
SessionIds == 1..MaxSessions

\* the UPDATE of the flush if it added the session's increments to the
\* stored counters (SET quantity_completed = quantity_completed + n)
WriteBackIncrements(current, loaded, new) ==
    [a \in DOMAIN current |->
        IF a \in {"quantity_completed", "quantity_scrapped"}
        THEN current[a] + (new[a] - loaded[a])
        ELSE IF new[a] # loaded[a] THEN new[a] ELSE current[a]]

\* the UPDATE db.commit() flushes for the production order: the attributes the
\* session has changed since it loaded the row are set to the session's
\* values, whatever the row holds by then; no lock, no version column
WriteBack(current, loaded, new) ==
    [a \in DOMAIN current |-> IF new[a] # loaded[a] THEN new[a] ELSE current[a]]

\* the request and the production order row a session holds from its read
\* ("Verify production order exists") until its commit
Session(inspection, production_order) ==
    [inspection |-> inspection, production_order |-> production_order]

\* create_quality_inspection up to db.add: the production order is read into
\* the session; a refused request leaves no session behind
ReadProductionOrder(s, requests) ==
    /\ s \notin DOMAIN sessions
    /\ next_inspection_id + Cardinality(DOMAIN sessions) <= MaxInspections
    /\ \E inspection \in requests :
          LET outcome == create_quality_inspection(DB, inspection, next_inspection_id)
          IN  sessions' =
                 IF outcome.code # 200 THEN sessions
                 ELSE [t \in DOMAIN sessions \cup {s} |->
                          IF t = s
                          THEN Session(inspection,
                                       production_orders[inspection.production_order_id])
                          ELSE sessions[t]]
    /\ UNCHANGED <<production_orders, quality_inspections, next_inspection_id,
                   shipments, next_shipment_id, sales_orders, sales_order_items,
                   touched, risk,
                   travel_sheets, travel_sheet_operations, shipment_numbers, year>>

\* create_quality_inspection from the roll-up to db.commit(): the arithmetic
\* runs on the row as the session read it, the flush inserts the inspection
\* and writes the changed attributes of the production order
CommitInspection(s) ==
    /\ s \in DOMAIN sessions
    /\ LET inspection == sessions[s].inspection
           loaded == sessions[s].production_order
           pid == inspection.production_order_id
           view == [DB EXCEPT !.production_orders[pid] = loaded]
           outcome == create_quality_inspection(view, inspection, next_inspection_id)
       IN  /\ production_orders' =
                  [production_orders EXCEPT
                     ![pid] = WriteBack(@, loaded, outcome.db.production_orders[pid])]
           /\ quality_inspections' = outcome.db.quality_inspections
    /\ next_inspection_id' = next_inspection_id + 1
    /\ sessions' = [t \in DOMAIN sessions \ {s} |-> sessions[t]]
    /\ UNCHANGED <<shipments, next_shipment_id, sales_orders, sales_order_items,
                   touched, risk,
                   travel_sheets, travel_sheet_operations, shipment_numbers, year>>

\* the requests in flight: inspections of the first production order, and
\* one of a production order that does not exist
RaceInspections ==
    [production_order_id : {1, MissingProductionOrderId},
     status : InspectionStatuses,
     quantity_inspected : {None},
     quantity_approved : ApprovedQuantities \ {Some(0)},
     quantity_rejected : RejectedQuantities,
     unset : {{}}]

NextRace ==
    \/ \E s \in SessionIds : ReadProductionOrder(s, RaceInspections)
    \/ \E s \in SessionIds : CommitInspection(s)

SpecRace == Init /\ [][NextRace]_vars

(***************************************************************************)
(* The dashboard's risk figures: determine_risk_status on any day, for any *)
(* due date and status.                                                    *)
(***************************************************************************)
Days == 0..MaxDay

\* ProductionOrder.due_date is nullable
DueDates == {None} \cup {Some(d) : d \in Days}

\* the status strings of production orders, sales orders and shipments
RiskStatuses == {"Created", "In Progress", "Completed", "Cancelled", "Shipped", "Delivered"}

DetermineRiskStatus ==
    /\ \E due_date \in DueDates, status \in RiskStatuses, today \in Days :
          risk' = RiskEvaluation(due_date, status, today)
    /\ UNCHANGED <<production_orders, quality_inspections, next_inspection_id,
                   shipments, next_shipment_id, sales_orders, sales_order_items,
                   touched, sessions,
                   travel_sheets, travel_sheet_operations, shipment_numbers, year>>

NextRisk == DetermineRiskStatus

SpecRisk == Init /\ [][NextRisk]_vars

(***************************************************************************)
(* Shipment numbers over the years: shipments are created and deleted      *)
(* while the year changes, starting from a table that may already hold a   *)
(* shipment of the first year.                                             *)
(***************************************************************************)
\* the suffix of the shipment stored at the start, if there is one
SeedSuffixes == {1, 9998, 9999}

\* the shipment_number column at the start: no row, or one row of the first year
SeedNumbers == {NoRows} \cup {(1 :> ShipmentNumber(1, n)) : n \in SeedSuffixes}

InitNumbers ==
    /\ production_orders = [p \in ProductionOrderIds |-> NewProductionOrder]
    /\ quality_inspections = NoRows
    /\ next_inspection_id = 1
    /\ \E seeds \in SeedNumbers :
          /\ shipment_numbers = seeds
          /\ shipments = [i \in DOMAIN seeds |-> [items |-> <<>>]]
          /\ next_shipment_id = Cardinality(DOMAIN seeds) + 1
    /\ sales_orders = NewSalesOrders
    /\ sales_order_items = NewSalesOrderItems
    /\ touched = {}
    /\ sessions = NoRows
    /\ risk = RiskEvaluation(None, "Created", 0)
    /\ travel_sheets = NoRows
    /\ travel_sheet_operations = NoRows
    /\ year = 1

\* datetime.now().year moves on
NewYear ==
    /\ year < MaxYear
    /\ year' = year + 1
    /\ UNCHANGED <<production_orders, quality_inspections, next_inspection_id,
                   shipments, next_shipment_id, sales_orders, sales_order_items,
                   touched, sessions, risk, travel_sheets, travel_sheet_operations,
                   shipment_numbers>>

NextNumbers ==
    \/ CreateShipment(LedgerRequests)
    \/ DeleteShipment
    \/ NewYear

SpecNumbers == InitNumbers /\ [][NextNumbers]_vars

(***************************************************************************)
(* Shipment requests in flight together, each in its own session.  The     *)
(* database runs the transactions at READ COMMITTED: a query reads the     *)
(* rows committed by then and the rows its own session has flushed.        *)
(***************************************************************************)
\* what the session of a create_shipment request holds: the request, the
\* number generated for it and, once the loop over the lines has run, the
\* item rows it has queued
ShipmentSession(shipment_data, shipment_number, validated, items) ==
    [shipment_data |-> shipment_data, shipment_number |-> shipment_number,
     validated |-> validated, items |-> items]

\* the sessions without session s
SessionsBut(s) == [t \in DOMAIN sessions \ {s} |-> sessions[t]]

\* create_shipment down to generate_shipment_number: a request answered 404
\* leaves no session behind
BeginShipment(s, requests) ==
    /\ s \notin DOMAIN sessions
    /\ next_shipment_id + Cardinality(DOMAIN sessions) <= MaxShipments
    /\ \E shipment_data \in requests :
          LET outcome == create_shipment(DB, shipment_data, next_shipment_id)
          IN  sessions' =
                 IF outcome.detail \in {"Customer not found", "Sales order not found"}
                 THEN sessions
                 ELSE [t \in DOMAIN sessions \cup {s} |->
                          IF t = s
                          THEN ShipmentSession(shipment_data,
                                   generate_shipment_number(shipment_numbers, year),
                                   FALSE, <<>>)
                          ELSE sessions[t]]
    /\ UNCHANGED <<production_orders, quality_inspections, next_inspection_id,
                   shipments, next_shipment_id, sales_orders, sales_order_items,
                   touched, risk, travel_sheets, travel_sheet_operations,
                   shipment_numbers, year>>

\* create_shipment from the INSERT of the shipment to the end of the loop
\* over the lines.  The INSERT waits while another open transaction has
\* inserted the same shipment_number and fails when a committed row carries
\* it; the queries of the loop read the committed rows.  A request that is
\* refused leaves no session behind.
ValidateShipment(s) ==
    /\ s \in DOMAIN sessions
    /\ ~sessions[s].validated
    /\ \A t \in DOMAIN sessions \ {s} :
          sessions[t].validated => sessions[t].shipment_number # sessions[s].shipment_number
    /\ LET outcome == NumberedOutcome(DB, shipment_numbers, sessions[s].shipment_number,
                          create_shipment(DB, sessions[s].shipment_data, next_shipment_id))
       IN  sessions' =
              IF outcome.code = 201
              THEN [sessions EXCEPT
                      ![s] = ShipmentSession(@.shipment_data, @.shipment_number, TRUE,
                                 outcome.db.shipments[next_shipment_id].items)]
              ELSE SessionsBut(s)
    /\ UNCHANGED <<production_orders, quality_inspections, next_inspection_id,
                   shipments, next_shipment_id, sales_orders, sales_order_items,
                   touched, risk, travel_sheets, travel_sheet_operations,
                   shipment_numbers, year>>

\* create_shipment from the flush of the item rows to db.commit(): the rows
\* are inserted and the shipped quantities of the sales order items brought
\* up to date
CommitShipment(s) ==
    /\ s \in DOMAIN sessions
    /\ sessions[s].validated
    /\ LET items == sessions[s].items
           stored == [DB EXCEPT !.shipments =
                         [i \in DOMAIN shipments \cup {next_shipment_id} |->
                             IF i = next_shipment_id THEN [items |-> items]
                             ELSE shipments[i]]]
           db == update_sales_order_quantities(stored, items, "add")
       IN  /\ Commit(db)
           /\ shipment_numbers' =
                  NumbersAfter(shipment_numbers, db.shipments, sessions[s].shipment_number)
           /\ touched' = touched \cup SalesOrderIdsOf(DB, items)
    /\ next_shipment_id' = next_shipment_id + 1
    /\ sessions' = SessionsBut(s)
    /\ UNCHANGED <<next_inspection_id, risk, travel_sheets, travel_sheet_operations, year>>

\* the requests in flight: one line of one or two units of the first
\* production order, whose Released inspections approve one unit each
ConcurrentRequests ==
    [customer_id : CustomerIds,
     sales_order_id : {None},
     items : {<<Line(1, 1, Some(1), q)>> : q \in 1..2}]

ConcurrentInspections ==
    [production_order_id : {1},
     status : {"Released"},
     quantity_inspected : {None},
     quantity_approved : {Some(1)},
     quantity_rejected : {None},
     unset : {{}}]

NextConcurrent ==
    \/ CreateQualityInspection(ConcurrentInspections)
    \/ \E s \in SessionIds : BeginShipment(s, ConcurrentRequests)
    \/ \E s \in SessionIds : ValidateShipment(s)
    \/ \E s \in SessionIds : CommitShipment(s)
    \/ NewYear

SpecConcurrent == Init /\ [][NextConcurrent]_vars

(***************************************************************************)
(* Shop-floor requests, one at a time.                                     *)
(***************************************************************************)
CommitFloor(db) ==
    /\ production_orders' = db.production_orders
    /\ travel_sheets' = db.travel_sheets
    /\ travel_sheet_operations' = db.travel_sheet_operations

GenerateTravelSheet ==
    /\ Cardinality(DOMAIN travel_sheets) < MaxTravelSheets
    /\ \E order_id \in ProductionOrderIds \cup {MissingProductionOrderId} :
          CommitFloor(Persisted(FloorDB, generate_travel_sheet(FloorDB, order_id)))
    /\ UNCHANGED <<quality_inspections, next_inspection_id, shipments, next_shipment_id,
                   sales_orders, sales_order_items, touched, sessions, risk,
                   shipment_numbers, year>>

\* QRScanRequest bodies
ScanRequests(badges, codes) == [badge_id : badges, qr_code : codes]

ScanQRCode(requests) ==
    /\ \E scan_request \in requests :
          CommitFloor(Persisted(FloorDB, scan_qr_code(FloorDB, scan_request)))
    /\ UNCHANGED <<quality_inspections, next_inspection_id, shipments, next_shipment_id,
                   sales_orders, sales_order_items, touched, sessions, risk,
                   shipment_numbers, year>>

\* a TravelSheetOperationUpdate body; None: the field is left out
OperationUpdate(status, quantity_good, quantity_scrap) ==
    [status |-> status, quantity_good |-> quantity_good, quantity_scrap |-> quantity_scrap]

\* the operation ids a request may name: those of the sheets and one more
OperationIds == 1..(MaxTravelSheets * Len(Routings[1]) + 1)

CompleteOperation(bodies, times) ==
    /\ \E operation_id \in OperationIds, operation_update \in bodies, now \in times :
          CommitFloor(Persisted(FloorDB,
              complete_operation(FloorDB, operation_id, operation_update, now)))
    /\ UNCHANGED <<quality_inspections, next_inspection_id, shipments, next_shipment_id,
                   sales_orders, sales_order_items, touched, sessions, risk,
                   shipment_numbers, year>>

\* the codes a scanner may read: the codes of the sheets and of their
\* operations, of a sheet and of an operation that do not exist, a sheet code
\* without its number, a code of another type and a text that is not JSON
QRCodes ==
    {TravelSheetQR(n) : n \in 1..(MaxTravelSheets + 1)}
      \cup {OperationQR(t, q) : t \in 1..MaxTravelSheets, q \in 1..(Len(Routings[1]) + 1)}
      \cup {QRCode(TRUE, "travel_sheet", None, None, None),
            QRCode(TRUE, "part_number", None, None, None),
            QRCode(FALSE, "", None, None, None)}

\* the badges of the operators and one that nobody holds
BadgeIds == DOMAIN Badges \cup {"B-0"}

\* Scanning: sheets are generated, codes are scanned by either operator or
\* with an unknown badge, operations are completed; the body of a completion
\* is empty or asks for the status "Pending"
ScanBodies == {OperationUpdate(None, None, None), OperationUpdate(Some("Pending"), None, None)}

NextScan ==
    \/ GenerateTravelSheet
    \/ ScanQRCode(ScanRequests(BadgeIds, QRCodes))
    \/ CompleteOperation(ScanBodies, {1})

SpecScan == Init /\ [][NextScan]_vars

\* Completion: the first operator scans the codes of the sheets, operations
\* are completed at one of two times with or without quantities, and
\* Released inspections of the first production order arrive in between
Times == {1, 2}

CompletionCodes == {TravelSheetQR(n) : n \in 1..MaxTravelSheets}

CompletionBodies == {OperationUpdate(None, None, None), OperationUpdate(None, Some(1), Some(1))}

CompletionInspections ==
    [production_order_id : {1},
     status : {"Released"},
     quantity_inspected : {None},
     quantity_approved : {Some(1)},
     quantity_rejected : {None},
     unset : {{}}]

NextCompletion ==
    \/ GenerateTravelSheet
    \/ ScanQRCode(ScanRequests({"B-1"}, CompletionCodes))
    \/ CompleteOperation(CompletionBodies, Times)
    \/ CreateQualityInspection(CompletionInspections)

SpecCompletion == Init /\ [][NextCompletion]_vars

(***************************************************************************)
(* Properties.                                                             *)
(***************************************************************************)
\* a stored quantity with null counted as 0
NullAsZero(x) == IF x = None THEN 0 ELSE Val(x)

\* the stored inspections of production order p whose status is in statuses
StoredInspections(p, statuses) ==
    {i \in DOMAIN quality_inspections :
        /\ quality_inspections[i].production_order_id = p
        /\ quality_inspections[i].status \in statuses}

\* an inspection has been deleted: the id sequence is ahead of the rows
SomeInspectionDeleted ==
    next_inspection_id > Cardinality(DOMAIN quality_inspections) + 1

\* C1: after any sequence of create, update (same production order) and
\* delete requests, quantity_completed of every production order is the sum
\* of quantity_approved (null as 0) over its stored Released inspections.
C1_CompletedIsReleasedApproved ==
    \A p \in ProductionOrderIds :
        production_orders[p].quantity_completed =
            SumRows([i \in StoredInspections(p, {"Released"}) |->
                        NullAsZero(quality_inspections[i].quantity_approved)])

\* C1 witness: an inspection has been deleted and the Released inspection
\* that is left has approved units
C1_Witness ==
    /\ SomeInspectionDeleted
    /\ production_orders[1].quantity_completed > 0
    /\ \E i \in StoredInspections(1, {"Released"}) :
          Truthy(quality_inspections[i].quantity_approved)

\* C2 as claimed: quantity_scrapped is the sum of quantity_rejected (null as
\* 0) over all stored inspections of the order, whatever their status.
C2_ScrappedIsAllRejected ==
    \A p \in ProductionOrderIds :
        production_orders[p].quantity_scrapped =
            SumRows([i \in StoredInspections(p, InspectionStatuses) |->
                        NullAsZero(quality_inspections[i].quantity_rejected)])

\* C2 amended: quantity_scrapped is the sum of quantity_rejected (null as 0)
\* over the stored inspections whose status is "Released" or "Rejected".
C2_ScrappedIsReleasedOrRejected ==
    \A p \in ProductionOrderIds :
        production_orders[p].quantity_scrapped =
            SumRows([i \in StoredInspections(p, {"Released", "Rejected"}) |->
                        NullAsZero(quality_inspections[i].quantity_rejected)])

\* C2 witness: an inspection of a third status with rejected units is stored
\* beside a Rejected one whose units are scrapped
C2_Witness ==
    /\ production_orders[1].quantity_scrapped > 0
    /\ \E i \in StoredInspections(1, {"Rejected"}) :
          Truthy(quality_inspections[i].quantity_rejected)
    /\ \E i \in StoredInspections(1, InspectionStatuses \ {"Released", "Rejected"}) :
          Truthy(quality_inspections[i].quantity_rejected)

\* the sum of quantity_approved (null as 0) over the Released inspections of
\* production order p among the rows inspections
ApprovedOf(inspections, p) ==
    SumRows([i \in {j \in DOMAIN inspections :
                       /\ inspections[j].production_order_id = p
                       /\ inspections[j].status = "Released"} |->
                NullAsZero(inspections[i].quantity_approved)])

\* the stored shipment items, as <<shipment, position>>, that reference
\* production order p among the rows rows
ItemsOn(rows, p) ==
    {x \in UNION {{<<s, n>> : n \in DOMAIN rows[s].items} : s \in DOMAIN rows} :
        rows[x[1]].items[x[2]].production_order_id = Some(p)}

\* the total quantity of the stored shipment items that reference p
ShippedOf(rows, p) ==
    SumRows([x \in ItemsOn(rows, p) |-> rows[x[1]].items[x[2]].quantity])

\* the responses of a request that has been committed
Accepted == {200, 201, 204}

\* the responses of a request refused by a validation error
Refused == {400, 404}

\* the quantities a line may ask for
RequestedQuantities == 0..(MaxInspections + 1)

\* a request with the single line of quantity q against production order p
SingleLine(p, q) ==
    [customer_id |-> 1, sales_order_id |-> None, items |-> <<Line(1, 1, Some(p), q)>>]

\* the request has a line against production order p
HasLineOn(shipment_data, p) ==
    \E n \in DOMAIN shipment_data.items :
        shipment_data.items[n].production_order_id = Some(p)

ItemsOfOrder(o) == {i \in DOMAIN sales_order_items : sales_order_items[i].sales_order_id = o}

\* the status the totals of the items of sales order o call for
StatusByTotals(o) ==
    LET ordered == SumRows([i \in ItemsOfOrder(o) |-> sales_order_items[i].quantity])
        shipped == SumRows([i \in ItemsOfOrder(o) |-> sales_order_items[i].quantity_shipped])
    IN  IF shipped = 0 THEN "Open"
        ELSE IF shipped >= ordered THEN "Completed"
        ELSE "Partial"

\* a shipment has been deleted: the id sequence is ahead of the rows
SomeShipmentDeleted == next_shipment_id > Cardinality(DOMAIN shipments) + 1

C10_CommitWritesFromItsOwnRead ==
    [][\A s \in DOMAIN sessions :
          s \notin DOMAIN sessions' =>
             LET inspection == sessions[s].inspection
                 loaded == sessions[s].production_order
             IN  /\ DOMAIN quality_inspections' = DOMAIN quality_inspections \cup {next_inspection_id}
                 /\ (inspection.status = "Released" /\ Truthy(inspection.quantity_approved)) =>
                       production_orders'[inspection.production_order_id].quantity_completed
                          = loaded.quantity_completed + Val(inspection.quantity_approved)]_vars

\* C10 witness, the lost update: both requests have committed, both Released
\* inspections are stored, and quantity_completed is below the sum of their
\* approved quantities
C10_Witness ==
    /\ sessions = NoRows
    /\ Cardinality(StoredInspections(1, {"Released"})) = 2
    /\ \A i \in StoredInspections(1, {"Released"}) :
          Truthy(quality_inspections[i].quantity_approved)
    /\ production_orders[1].quantity_completed < ApprovedOf(quality_inspections, 1)

\* C11: determine_risk_status answers Green for the statuses Completed,
\* Shipped and Delivered whatever the due date; otherwise Yellow for a null
\* due date; otherwise Red exactly when due_date < today, Yellow exactly when
\* today <= due_date <= today + 3, Green exactly when due_date > today + 3.
C11_RiskStatusByDueDate ==
    LET due == risk.due_date
    IN  IF risk.status \in {"Completed", "Shipped", "Delivered"}
        THEN risk.risk_status = "Green"
        ELSE IF due = None
        THEN risk.risk_status = "Yellow"
        ELSE /\ risk.risk_status = "Red" <=> Val(due) < risk.today
             /\ risk.risk_status = "Yellow" <=>
                   (risk.today <= Val(due) /\ Val(due) <= risk.today + 3)
             /\ risk.risk_status = "Green" <=> Val(due) > risk.today + 3

\* C11 witness: an open order due on the third day from today is Yellow
C11_Witness ==
    /\ risk.status = "In Progress"
    /\ risk.due_date = Some(risk.today + 3)
    /\ risk.today > 0
    /\ risk.risk_status = "Yellow"

\* the stored shipments other than s
ShipmentsBut(s) == [t \in DOMAIN shipments \ {s} |-> shipments[t]]

\* the request that submits the stored lines of shipment s again
Resubmitted(s) ==
    [customer_id |-> 1, sales_order_id |-> None,
     items |-> [n \in DOMAIN shipments[s].items |->
                   Line(shipments[s].items[n].sales_order_item_id, 1,
                        shipments[s].items[n].production_order_id,
                        shipments[s].items[n].quantity)]]

RejectedOf(inspections, p) ==
    SumRows([i \in {j \in DOMAIN inspections : inspections[j].production_order_id = p} |->
                NullAsZero(inspections[i].quantity_rejected)])

\* C13 as claimed: a step that moves an inspection from production order A to
\* production order B leaves both with quantity_completed equal to the sum of
\* quantity_approved over the Released inspections that reference them and
\* quantity_scrapped equal to the sum of quantity_rejected over the
\* inspections that reference them.
C13_MoveKeepsBothRollUps ==
    [][\A i \in DOMAIN quality_inspections \cap DOMAIN quality_inspections' :
          quality_inspections[i].production_order_id
             # quality_inspections'[i].production_order_id =>
                \A p \in {quality_inspections[i].production_order_id,
                          quality_inspections'[i].production_order_id} :
                    /\ production_orders'[p].quantity_completed
                          = ApprovedOf(quality_inspections', p)
                    /\ production_orders'[p].quantity_scrapped
                          = RejectedOf(quality_inspections', p)]_vars

\* the counters of production order p among the rows db
Counters(db, p) ==
    <<db.production_orders[p].quantity_completed, db.production_orders[p].quantity_scrapped>>

\* the tables after delete_quality_inspection(i) followed by
\* create_quality_inspection(n)
DeleteThenCreate(i, n) ==
    LET deleted == Persisted(DB, delete_quality_inspection(DB, i, "Admin"))
    IN  Persisted(deleted, create_quality_inspection(deleted, n, next_inspection_id))

StatusFollowsCounter(after, at_zero) ==
    /\ after.quantity_completed >= after.quantity => after.status = "Completed"
    /\ (0 < after.quantity_completed /\ after.quantity_completed < after.quantity) =>
          after.status = "In Progress"
    /\ after.quantity_completed = 0 => after.status = at_zero

\* C15: after a create or an update that leaves the inspection Released, the
\* production order is Completed when quantity_completed >= quantity and In
\* Progress when 0 < quantity_completed < quantity; at quantity_completed = 0
\* create leaves the status as it was and update sets it to Released.
C15_ReleasedSetsOrderStatus ==
    /\ \A n \in InspectionRequests({1}) :
          LET created == create_quality_inspection(DB, n, next_inspection_id)
          IN  (created.code = 200 /\ n.status = "Released") =>
                 StatusFollowsCounter(created.db.production_orders[1],
                                      production_orders[1].status)
    /\ \A i \in StoredInspections(1, InspectionStatuses) :
          \A n \in InspectionUpdates({1}) :
              LET updated == update_quality_inspection(DB, i, n)
              IN  (updated.code = 200 /\ n.status = "Released") =>
                     StatusFollowsCounter(updated.db.production_orders[1], "Released")

\* C15 witness: the order is Completed, and the update of a stored inspection
\* to Released without approved units would take it to Released at
\* quantity_completed = 0
C15_Witness ==
    /\ production_orders[1].status = "Completed"
    /\ \E i \in StoredInspections(1, InspectionStatuses), n \in InspectionUpdates({1}) :
          LET updated == update_quality_inspection(DB, i, n)
          IN  /\ n.status = "Released"
              /\ updated.code = 200
              /\ updated.db.production_orders[1].quantity_completed = 0
              /\ updated.db.production_orders[1].status = "Released"

\* C16: every step that deletes an inspection leaves its production order
\* with the status its counter calls for after the reversal (Completed at
\* quantity_completed >= quantity, In Progress at quantity_completed > 0,
\* otherwise Released), whatever the status of the order and of the
\* inspection were; a Completed order left with 0 < quantity_completed <
\* quantity is In Progress again.
C16_DeleteRederivesStatus ==
    [][\A i \in DOMAIN quality_inspections \ DOMAIN quality_inspections' :
          LET before == production_orders[quality_inspections[i].production_order_id]
              after == production_orders'[quality_inspections[i].production_order_id]
          IN  /\ after.status =
                    IF after.quantity_completed >= after.quantity THEN "Completed"
                    ELSE IF after.quantity_completed > 0 THEN "In Progress"
                    ELSE "Released"
              /\ (/\ before.status = "Completed"
                  /\ 0 < after.quantity_completed
                  /\ after.quantity_completed < after.quantity) =>
                     after.status = "In Progress"]_vars

\* C16 witness: the order is Completed and the deletion of one of its
\* Released inspections leaves approved units short of the ordered quantity
C16_Witness ==
    /\ production_orders[1].status = "Completed"
    /\ \E i \in StoredInspections(1, {"Released"}) :
          LET after == delete_quality_inspection(DB, i, "Admin").db.production_orders[1]
          IN  /\ 0 < after.quantity_completed
              /\ after.quantity_completed < after.quantity
              /\ after.status = "In Progress"

\* C17: every step that stores a new inspection with status "Rejected" adds
\* its quantity_rejected (null as 0) to quantity_scrapped of its production
\* order and leaves quantity_completed and status of the order as they were.
C17_RejectedCreateOnlyScraps ==
    [][\A i \in DOMAIN quality_inspections' \ DOMAIN quality_inspections :
          quality_inspections'[i].status = "Rejected" =>
             LET p == quality_inspections'[i].production_order_id
             IN  production_orders'[p] =
                    [production_orders[p] EXCEPT
                        !.quantity_scrapped =
                            @ + NullAsZero(quality_inspections'[i].quantity_rejected)]]_vars

\* C17 witness: a Rejected inspection with rejected units has been stored for
\* an order that is Completed, and its units are scrapped
C17_Witness ==
    /\ production_orders[1].status = "Completed"
    /\ production_orders[1].quantity_scrapped > 0
    /\ \E i \in StoredInspections(1, {"Rejected"}) :
          /\ i = next_inspection_id - 1
          /\ Truthy(quality_inspections[i].quantity_rejected)

ItemsLinkedTo(k) ==
    {x \in UNION {{<<s, n>> : n \in DOMAIN shipments[s].items} : s \in DOMAIN shipments} :
        shipments[x[1]].items[x[2]].sales_order_item_id = k}

QuantityRequests ==
    [production_order_id : {1},
     status : {"Released"},
     quantity_inspected : {None, Some(0), Some(1)},
     quantity_approved : {None, Some(0), Some(1), Some(2)},
     quantity_rejected : {None, Some(0), Some(1), Some(2)},
     unset : {{}}]

\* the request is refused with a 400 and the persisted rows stay as they are
RefusedUnchanged(n) ==
    LET created == create_quality_inspection(DB, n, next_inspection_id)
    IN  /\ created.code = 400
        /\ Persisted(DB, created) = DB

OperationsOf(t) ==
    {o \in DOMAIN travel_sheet_operations : travel_sheet_operations[o].travel_sheet_id = t}

\* operation o is Completed after the step and was not before it
BecomesCompleted(o) ==
    /\ travel_sheet_operations[o].status # "Completed"
    /\ travel_sheet_operations'[o].status = "Completed"

\* C21: when a request completes the last operation of a travel sheet that
\* is not Completed, every other operation of the sheet being Completed
\* already, the sheet is Completed once the request has committed.
C21_LastCompletionCompletesSheet ==
    [][\A o \in DOMAIN travel_sheet_operations :
          LET t == travel_sheet_operations[o].travel_sheet_id
          IN  (/\ BecomesCompleted(o)
               /\ travel_sheets[t].status # "Completed"
               /\ \A other \in OperationsOf(t) \ {o} :
                     travel_sheet_operations[other].status = "Completed")
              => travel_sheets'[t].status = "Completed"]_vars

\* C22: complete_operation answers 200 only for an operation that is In
\* Progress; for one that is Pending or Completed it answers 400 and the
\* operation (status, quantities, end_time) and its travel sheet stay as
\* they are stored.
C22_OnlyInProgressCompletes ==
    \A o \in DOMAIN travel_sheet_operations, operation_update \in CompletionBodies,
       now \in Times :
        LET status == travel_sheet_operations[o].status
            outcome == complete_operation(FloorDB, o, operation_update, now)
            after == Persisted(FloorDB, outcome)
        IN  /\ outcome.code = 200 => status = "In Progress"
            /\ status \in {"Pending", "Completed"} =>
                  /\ outcome.code = 400
                  /\ after.travel_sheet_operations[o] = travel_sheet_operations[o]
                  /\ after.travel_sheets = travel_sheets

\* a Pending operation next to a Completed one whose end_time differs from
\* the time of a later request
C22_Witness ==
    \E o, c \in DOMAIN travel_sheet_operations :
        /\ travel_sheet_operations[o].status = "Pending"
        /\ travel_sheet_operations[c].status = "Completed"
        /\ travel_sheet_operations[c].end_time = Some(1)
        /\ travel_sheet_operations[c].quantity_good = 0

LowestOf(o, candidates) ==
    /\ o \in candidates
    /\ \A other \in candidates :
          travel_sheet_operations[o].sequence_number
              <= travel_sheet_operations[other].sequence_number

\* C24: a scan of the code of a travel sheet by an operator starts the
\* Pending operation of the sheet with the lowest sequence_number and
\* records the operator on it; when the sheet has no Pending operation the
\* scan changes nothing, and it answers awaiting_completion for the In
\* Progress operation with the lowest sequence_number if there is one and
\* fails otherwise.
C24_SheetScanStartsFirstPending ==
    \A t \in DOMAIN travel_sheets, badge_id \in DOMAIN Badges :
        LET outcome == scan_qr_code(FloorDB,
                           [badge_id |-> badge_id,
                            qr_code |-> TravelSheetQR(travel_sheets[t].travel_sheet_number)])
            after == Persisted(FloorDB, outcome)
            pending == {o \in OperationsOf(t) : travel_sheet_operations[o].status = "Pending"}
            in_progress ==
                {o \in OperationsOf(t) : travel_sheet_operations[o].status = "In Progress"}
        IN  IF pending # {}
            THEN \E o \in pending :
                    /\ LowestOf(o, pending)
                    /\ outcome.success
                    /\ outcome.operation_id = Some(o)
                    /\ after = [FloorDB EXCEPT
                                  !.travel_sheet_operations[o].status = "In Progress",
                                  !.travel_sheet_operations[o].operator_id =
                                      Some(Badges[badge_id])]
            ELSE /\ after = FloorDB
                 /\ IF in_progress # {}
                    THEN /\ outcome.success
                         /\ outcome.status = Some("awaiting_completion")
                         /\ \E o \in in_progress :
                               LowestOf(o, in_progress) /\ outcome.operation_id = Some(o)
                    ELSE ~outcome.success

\* a sheet whose operations were started by the second operator and are
\* both In Progress, next to a sheet whose operations are both Pending
C24_Witness ==
    \E t, u \in DOMAIN travel_sheets :
        /\ Cardinality(OperationsOf(t)) = Len(Routings[1])
        /\ \A o \in OperationsOf(t) :
              /\ travel_sheet_operations[o].status = "In Progress"
              /\ travel_sheet_operations[o].operator_id = Some(2)
        /\ Cardinality(OperationsOf(u)) = Len(Routings[1])
        /\ \A o \in OperationsOf(u) : travel_sheet_operations[o].status = "Pending"

\* C28: under scans and completions the row of an operation changes only by
\* a start (Pending to In Progress) or a completion (In Progress to
\* Completed): a Pending operation is never completed, an operation that is
\* In Progress is left as it is by every scan, and a Completed operation is
\* never changed again.
C28_StatusOnlyMovesForward ==
    [][\A o \in DOMAIN travel_sheet_operations :
          LET before == travel_sheet_operations[o]
              after == travel_sheet_operations'[o]
          IN  after # before =>
                 \/ before.status = "Pending" /\ after.status = "In Progress"
                 \/ before.status = "In Progress" /\ after.status = "Completed"]_vars

\* an operation completed by the first operator next to one the second
\* operator has started
C28_Witness ==
    \E o, c \in DOMAIN travel_sheet_operations :
        /\ travel_sheet_operations[c].status = "Completed"
        /\ travel_sheet_operations[c].operator_id = Some(1)
        /\ travel_sheet_operations[o].status = "In Progress"
        /\ travel_sheet_operations[o].operator_id = Some(2)

(***************************************************************************)
(* The status of a production order against its counter.                   *)
(***************************************************************************)
\* C26: whatever inspections were created, updated and deleted, a
\* production order whose status is Completed has a completed quantity of
\* at least the ordered quantity.
C26_CompletedMeansQuantityReached ==
    \A p \in ProductionOrderIds :
        production_orders[p].status = "Completed" =>
            production_orders[p].quantity_completed >= production_orders[p].quantity

(***************************************************************************)
(* Shipment numbers.                                                       *)
(***************************************************************************)
\* the suffixes, as numbers, of the stored shipment numbers of a year
SuffixesOf(this_year) ==
    {ParseInt(n.suffix) : n \in {m \in StoredNumbers(shipment_numbers) : m.year = this_year}}

====
